---- MODULE Spec2Model ----
(***************************************************************************)
(* Model of src/platform/macos_iokit/hotplug.rs: MacHotplugWatch, the      *)
(* bridge from IOKit matching notifications (two kernel queues plus a      *)
(* native callback) to a pollable stream of HotplugEvent.                  *)
(*                                                                         *)
(* poll_next and new are split at the points where the OS thread can       *)
(* interleave: every IoServiceIterator::next call is one step.  The OS is  *)
(* the environment: it enqueues a service into a queue and posts one       *)
(* callback invocation for it, delivered later from the event loop.        *)
(***************************************************************************)
EXTENDS Integers, Sequences, FiniteSets, TLC

\* ---------------------------------------------------------------- bounds
MaxDevices == 2
\* notifications the OS delivers to the watch after it has registered
MaxEvents == 3

Devices == 1..MaxDevices
Wakers == {"W1", "W2"}
None == "none"
Iters == {"matched", "terminated"}

\* saturation of the per-registration history counters
Sat(n) == IF n >= 2 THEN 2 ELSE n + 1

VARIABLES
    pc,                 \* position of the watch: start, drain, source, idle,
                        \* matched, terminated, failed, dropped
    notification_port,  \* none | open | destroyed
    port_destroys,      \* number of IONotificationPortDestroy calls
    inner,              \* none | alloc | freed   (Box<Inner>)
    waker,              \* Inner.waker: the single AtomicWaker slot
    matched_handle,     \* none | raw | owned | released
    terminated_handle,  \* none | raw | owned | released
    matched_iter,       \* kernel queue behind matched_iter
    terminated_iter,    \* kernel queue behind terminated_iter
    registration,       \* EventRegistration: none | added | removed
    new_result,         \* none | ok | err
    dev,                \* OS view of each device: absent | present | removed
    dev_at_new,         \* dev as it was before new() ran
    late,               \* arrivals queued after the drain in new() ended
    cb_pending,         \* callback invocations posted and not yet run
    last_result,        \* what the most recent poll_next returned
    returned,           \* every Ready event returned so far, in order
    polls,              \* number of poll_next calls started (saturating)
    cur_waker,          \* the waker handed to the most recent poll_next
    replaced,           \* the parked waker that call overwrote
    woken,              \* the waker woken since that call registered
    wakes,              \* wakes delivered since that call registered
    callbacks,          \* callback runs since that call registered
    m0, t0,             \* both queues as the current call found them
    consumedM, consumedT \* entries the current call took from each queue

vars == << pc, notification_port, port_destroys, inner, waker, matched_handle,
           terminated_handle, matched_iter, terminated_iter, registration,
           new_result, dev, dev_at_new, late, cb_pending, last_result,
           returned, polls, cur_waker, replaced, woken, wakes, callbacks, m0, t0,
           consumedM, consumedT >>

watchVars == << notification_port, port_destroys, inner, matched_handle,
                terminated_handle, registration, new_result >>
callVars == << last_result, returned, polls, cur_waker, replaced, m0, t0,
               consumedM, consumedT >>
wakeVars == << waker, woken, wakes, callbacks >>

\* ------------------------------------------------------------- data model
\* DeviceId(registry_id): the registry id the OS assigned to device d
RegistryId(d) == d + MaxDevices

Entry(d, ok) == [dev |-> d, ok |-> ok]

Pending == [type |-> "Pending", val |-> 0]
Connected(info) == [type |-> "Connected", val |-> info]
Disconnected(id) == [type |-> "Disconnected", val |-> id]
NoPoll == [type |-> "None", val |-> 0]

\* Option<T> is a sequence of length at most one
probe_device(s) == IF s.ok THEN << s.dev >> ELSE << >>
\* get_registry_id handing back the service handle in place of its registry id
get_registry_id_handle(s) == IF s.ok THEN << s.dev >> ELSE << >>
get_registry_id(s) == IF s.ok THEN << RegistryId(s.dev) >> ELSE << >>

\* the services matching at registration time, in registry order
RECURSIVE Existing(_, _)
Existing(d, oks) ==
    IF d > MaxDevices THEN << >>
    ELSE (IF dev[d] = "present" THEN << Entry(d, oks[d]) >> ELSE << >>)
         \o Existing(d + 1, oks)

\* both registrations are live on an open port
Registered == notification_port = "open" /\ matched_handle = "owned"

\* notifications queued since registration: one per change of a device
Changes(d) ==
    IF dev[d] = dev_at_new[d] THEN 0
    ELSE IF dev_at_new[d] = "absent" /\ dev[d] = "removed" THEN 2 ELSE 1
RECURSIVE Events(_)
Events(d) == IF d > MaxDevices THEN 0 ELSE Changes(d) + Events(d + 1)

Init ==
    /\ pc = "start"
    /\ notification_port = "none"
    /\ port_destroys = 0
    /\ inner = "none"
    /\ waker = None
    /\ matched_handle = "none"
    /\ terminated_handle = "none"
    /\ matched_iter = << >>
    /\ terminated_iter = << >>
    /\ registration = "none"
    /\ new_result = "none"
    /\ dev \in [Devices -> {"absent", "present"}]
    /\ dev_at_new = dev
    /\ late = {}
    /\ cb_pending = [i \in Iters |-> 0]
    /\ last_result = NoPoll
    /\ returned = << >>
    /\ polls = 0
    /\ cur_waker = None
    /\ replaced = None
    /\ woken = None
    /\ wakes = 0
    /\ callbacks = 0
    /\ m0 = << >>
    /\ t0 = << >>
    /\ consumedM = << >>
    /\ consumedT = << >>

\* ------------------------------------------------------------ environment
\* The devices connected before new() runs are chosen by Init; the OS acts on
\* the watch from the moment its registrations exist until the port is gone.
\* A device is plugged in: the kernel queues the service on the first-match
\* registration and posts the callback for it.
os_arrival(d, ok) ==
    /\ Registered
    /\ Events(1) < MaxEvents
    /\ dev[d] = "absent"
    /\ dev' = [dev EXCEPT ![d] = "present"]
    /\ matched_iter' = Append(matched_iter, Entry(d, ok))
    /\ late' = (IF pc = "drain" THEN late ELSE late \cup {Entry(d, ok)})
    /\ cb_pending' = [cb_pending EXCEPT !["matched"] = @ + 1]
    /\ UNCHANGED << pc, watchVars, callVars, wakeVars, terminated_iter,
                    dev_at_new >>

\* A device is unplugged: the same on the terminated registration.
os_termination(d, ok) ==
    /\ Registered
    /\ Events(1) < MaxEvents
    /\ dev[d] = "present"
    /\ dev' = [dev EXCEPT ![d] = "removed"]
    /\ terminated_iter' = Append(terminated_iter, Entry(d, ok))
    /\ cb_pending' = [cb_pending EXCEPT !["terminated"] = @ + 1]
    /\ UNCHANGED << pc, watchVars, callVars, wakeVars, matched_iter,
                    dev_at_new, late >>

\* ------------------------------------------------------------------ new()
\* IOServiceMatching returned null
new_dictionary_fail ==
    /\ pc = "start"
    /\ pc' = "failed"
    /\ new_result' = "err"
    /\ UNCHANGED << notification_port, port_destroys, inner, matched_handle,
                    terminated_handle, registration, matched_iter,
                    terminated_iter, dev, dev_at_new, late, cb_pending, callVars,
                    wakeVars >>

\* port, Inner, both IOServiceAddMatchingNotification calls, the status test
new_register(r1, r2, oks) ==
    /\ pc = "start"
    /\ \A d \in Devices : dev[d] # "present" => oks[d]
    /\ inner' = "alloc"
    /\ IF r1 /\ r2
       THEN /\ notification_port' = "open"
            /\ terminated_handle' = "owned"
            /\ matched_handle' = "owned"
            /\ matched_iter' = Existing(1, oks)
            /\ pc' = "drain"
            /\ UNCHANGED << port_destroys, new_result >>
       ELSE /\ notification_port' = "destroyed"
            /\ port_destroys' = port_destroys + 1
            /\ terminated_handle' = (IF r1 THEN "raw" ELSE "none")
            /\ matched_handle' = (IF r2 THEN "raw" ELSE "none")
            /\ new_result' = "err"
            /\ pc' = "failed"
            /\ \A d \in Devices : oks[d]
            /\ UNCHANGED matched_iter
    /\ UNCHANGED << terminated_iter, registration, dev, dev_at_new, late, cb_pending, callVars,
                    wakeVars >>

\* new() without the drain: the backlog is left in the queue
new_drain_skipped ==
    /\ pc = "drain"
    /\ pc' = "source"
    /\ UNCHANGED << watchVars, matched_iter, terminated_iter, dev, dev_at_new,
                    late, cb_pending, callVars, wakeVars >>

\* one turn of `while let Some(_) = matched_iter.next() {}`
new_drain ==
    /\ pc = "drain"
    /\ IF matched_iter # << >>
       THEN /\ matched_iter' = Tail(matched_iter)
            /\ pc' = "drain"
       ELSE /\ pc' = "source"
            /\ UNCHANGED matched_iter
    /\ UNCHANGED << watchVars, terminated_iter, dev, dev_at_new, late, cb_pending,
                    callVars, wakeVars >>

\* new() draining once more after the event source is installed
new_add_source_drains ==
    /\ pc = "source"
    /\ registration' = "added"
    /\ new_result' = "ok"
    /\ matched_iter' = << >>
    /\ pc' = "idle"
    /\ UNCHANGED << notification_port, port_destroys, inner, matched_handle,
                    terminated_handle, terminated_iter, dev, dev_at_new, late,
                    cb_pending, callVars, wakeVars >>

\* add_event_source and Ok(MacHotplugWatch { .. })
new_add_source ==
    /\ pc = "source"
    /\ registration' = "added"
    /\ new_result' = "ok"
    /\ pc' = "idle"
    /\ UNCHANGED << notification_port, port_destroys, inner, matched_handle,
                    terminated_handle, matched_iter, terminated_iter, dev,
                    dev_at_new, late, cb_pending, callVars, wakeVars >>

\* ------------------------------------------------------------- poll_next
\* poll_next registering only into an empty slot
poll_next_register_keeps(w) ==
    /\ pc = "idle"
    /\ waker' = (IF waker = None THEN w ELSE waker)
    /\ cur_waker' = w
    /\ replaced' = (IF last_result.type = "Pending" THEN waker ELSE None)
    /\ woken' = None
    /\ wakes' = 0
    /\ callbacks' = 0
    /\ polls' = Sat(polls)
    /\ m0' = matched_iter
    /\ t0' = terminated_iter
    /\ consumedM' = << >>
    /\ consumedT' = << >>
    /\ pc' = "matched"
    /\ UNCHANGED << watchVars, matched_iter, terminated_iter, dev, dev_at_new,
                    late, cb_pending, last_result, returned >>

\* self.inner().waker.register(cx.waker())
poll_next_register(w) ==
    /\ pc = "idle"
    /\ waker' = w
    /\ cur_waker' = w
    /\ replaced' = (IF last_result.type = "Pending" THEN waker ELSE None)
    /\ woken' = None
    /\ wakes' = 0
    /\ callbacks' = 0
    /\ polls' = Sat(polls)
    /\ m0' = matched_iter
    /\ t0' = terminated_iter
    /\ consumedM' = << >>
    /\ consumedT' = << >>
    /\ pc' = "matched"
    /\ UNCHANGED << watchVars, matched_iter, terminated_iter, dev, dev_at_new, late,
                    cb_pending, last_result, returned >>

\* the arrival loop giving up on the first failed probe (`if let` for `while let`)
poll_next_matched_once ==
    /\ pc = "matched"
    /\ IF matched_iter = << >>
       THEN /\ pc' = "terminated"
            /\ UNCHANGED << matched_iter, consumedM, last_result, returned >>
       ELSE LET s == Head(matched_iter)
                p == probe_device(s)
            IN /\ matched_iter' = Tail(matched_iter)
               /\ consumedM' = Append(consumedM, s)
               /\ IF p # << >>
                  THEN /\ last_result' = Connected(p[1])
                       /\ returned' = Append(returned, Connected(p[1]))
                       /\ pc' = "idle"
                  ELSE /\ pc' = "terminated"
                       /\ UNCHANGED << last_result, returned >>
    /\ UNCHANGED << watchVars, terminated_iter, dev, dev_at_new, late,
                    cb_pending, polls, cur_waker, replaced, m0, t0, consumedT,
                    wakeVars >>

\* the arrival loop returning Pending on a failed probe
poll_next_matched_stalls ==
    /\ pc = "matched"
    /\ IF matched_iter = << >>
       THEN /\ pc' = "terminated"
            /\ UNCHANGED << matched_iter, consumedM, last_result, returned >>
       ELSE LET s == Head(matched_iter)
                p == probe_device(s)
            IN /\ matched_iter' = Tail(matched_iter)
               /\ consumedM' = Append(consumedM, s)
               /\ pc' = "idle"
               /\ IF p # << >>
                  THEN /\ last_result' = Connected(p[1])
                       /\ returned' = Append(returned, Connected(p[1]))
                  ELSE /\ last_result' = Pending
                       /\ UNCHANGED returned
    /\ UNCHANGED << watchVars, terminated_iter, dev, dev_at_new, late,
                    cb_pending, polls, cur_waker, replaced, m0, t0, consumedT,
                    wakeVars >>

\* the arrival loop emptying the queue once a probe succeeded
poll_next_matched_drains ==
    /\ pc = "matched"
    /\ IF matched_iter = << >>
       THEN /\ pc' = "terminated"
            /\ UNCHANGED << matched_iter, consumedM, last_result, returned >>
       ELSE LET s == Head(matched_iter)
                p == probe_device(s)
            IN /\ consumedM' = Append(consumedM, s)
               /\ IF p # << >>
                  THEN /\ matched_iter' = << >>
                       /\ last_result' = Connected(p[1])
                       /\ returned' = Append(returned, Connected(p[1]))
                       /\ pc' = "idle"
                  ELSE /\ matched_iter' = Tail(matched_iter)
                       /\ pc' = "matched"
                       /\ UNCHANGED << last_result, returned >>
    /\ UNCHANGED << watchVars, terminated_iter, dev, dev_at_new, late,
                    cb_pending, polls, cur_waker, replaced, m0, t0, consumedT,
                    wakeVars >>

\* the arrival loop putting an entry whose probe failed back for a retry
poll_next_matched_requeues ==
    /\ pc = "matched"
    /\ IF matched_iter = << >>
       THEN /\ pc' = "terminated"
            /\ UNCHANGED << matched_iter, consumedM, last_result, returned >>
       ELSE LET s == Head(matched_iter)
                p == probe_device(s)
            IN /\ consumedM' = Append(consumedM, s)
               /\ IF p # << >>
                  THEN /\ matched_iter' = Tail(matched_iter)
                       /\ last_result' = Connected(p[1])
                       /\ returned' = Append(returned, Connected(p[1]))
                       /\ pc' = "idle"
                  ELSE /\ matched_iter' = Append(Tail(matched_iter), s)
                       /\ pc' = "terminated"
                       /\ UNCHANGED << last_result, returned >>
    /\ UNCHANGED << watchVars, terminated_iter, dev, dev_at_new, late,
                    cb_pending, polls, cur_waker, replaced, m0, t0, consumedT,
                    wakeVars >>

\* one turn of `while let Some(s) = self.matched_iter.next()`
poll_next_matched ==
    /\ pc = "matched"
    /\ IF matched_iter = << >>
       THEN /\ pc' = "terminated"
            /\ UNCHANGED << matched_iter, consumedM, last_result, returned >>
       ELSE LET s == Head(matched_iter)
                p == probe_device(s)
            IN /\ matched_iter' = Tail(matched_iter)
               /\ consumedM' = Append(consumedM, s)
               /\ IF p # << >>
                  THEN /\ last_result' = Connected(p[1])
                       /\ returned' = Append(returned, Connected(p[1]))
                       /\ pc' = "idle"
                  ELSE /\ pc' = "matched"
                       /\ UNCHANGED << last_result, returned >>
    /\ UNCHANGED << watchVars, terminated_iter, dev, dev_at_new, late, cb_pending,
                    polls, cur_waker, replaced, m0, t0, consumedT, wakeVars >>

\* the termination branch looping like the arrival loop (`while let` for `if let`)
poll_next_terminated_loops ==
    /\ pc = "terminated"
    /\ IF terminated_iter = << >>
       THEN /\ last_result' = Pending
            /\ pc' = "idle"
            /\ UNCHANGED << terminated_iter, consumedT, returned >>
       ELSE LET s == Head(terminated_iter)
                r == get_registry_id(s)
            IN /\ terminated_iter' = Tail(terminated_iter)
               /\ consumedT' = Append(consumedT, s)
               /\ IF r # << >>
                  THEN /\ last_result' = Disconnected(r[1])
                       /\ returned' = Append(returned, Disconnected(r[1]))
                       /\ pc' = "idle"
                  ELSE /\ pc' = "terminated"
                       /\ UNCHANGED << last_result, returned >>
    /\ UNCHANGED << watchVars, matched_iter, dev, dev_at_new, late, cb_pending,
                    polls, cur_waker, replaced, m0, t0, consumedM, wakeVars >>

\* the termination branch reading the head of the queue without advancing it
poll_next_terminated_peeks ==
    /\ pc = "terminated"
    /\ pc' = "idle"
    /\ IF terminated_iter = << >>
       THEN /\ last_result' = Pending
            /\ UNCHANGED << consumedT, returned >>
       ELSE LET s == Head(terminated_iter)
                r == get_registry_id(s)
            IN /\ consumedT' = Append(consumedT, s)
               /\ IF r # << >>
                  THEN /\ last_result' = Disconnected(r[1])
                       /\ returned' = Append(returned, Disconnected(r[1]))
                  ELSE /\ last_result' = Pending
                       /\ UNCHANGED returned
    /\ UNCHANGED << watchVars, matched_iter, terminated_iter, dev, dev_at_new,
                    late, cb_pending, polls, cur_waker, replaced, m0, t0,
                    consumedM, wakeVars >>

\* the termination branch waiting for the callback when the queue is empty
poll_next_terminated_waits ==
    /\ pc = "terminated"
    /\ terminated_iter # << >> \/ wakes > 0
    /\ pc' = "idle"
    /\ IF terminated_iter = << >>
       THEN /\ last_result' = Pending
            /\ UNCHANGED << terminated_iter, consumedT, returned >>
       ELSE LET s == Head(terminated_iter)
                r == get_registry_id(s)
            IN /\ terminated_iter' = Tail(terminated_iter)
               /\ consumedT' = Append(consumedT, s)
               /\ IF r # << >>
                  THEN /\ last_result' = Disconnected(r[1])
                       /\ returned' = Append(returned, Disconnected(r[1]))
                  ELSE /\ last_result' = Pending
                       /\ UNCHANGED returned
    /\ UNCHANGED << watchVars, matched_iter, dev, dev_at_new, late, cb_pending,
                    polls, cur_waker, replaced, m0, t0, consumedM, wakeVars >>

\* `if let Some(s) = self.terminated_iter.next()` and the final Poll::Pending
poll_next_terminated ==
    /\ pc = "terminated"
    /\ pc' = "idle"
    /\ IF terminated_iter = << >>
       THEN /\ last_result' = Pending
            /\ UNCHANGED << terminated_iter, consumedT, returned >>
       ELSE LET s == Head(terminated_iter)
                r == get_registry_id(s)
            IN /\ terminated_iter' = Tail(terminated_iter)
               /\ consumedT' = Append(consumedT, s)
               /\ IF r # << >>
                  THEN /\ last_result' = Disconnected(r[1])
                       /\ returned' = Append(returned, Disconnected(r[1]))
                  ELSE /\ last_result' = Pending
                       /\ UNCHANGED returned
    /\ UNCHANGED << watchVars, matched_iter, dev, dev_at_new, late, cb_pending,
                    polls, cur_waker, replaced, m0, t0, consumedM, wakeVars >>

\* ---------------------------------------------------------------- callback
\* the callback waking the waker by reference, leaving it in the slot
callback_wakes_by_ref(it) ==
    /\ cb_pending[it] > 0
    /\ registration # "none"
    /\ inner = "alloc"
    /\ cb_pending' = [cb_pending EXCEPT ![it] = @ - 1]
    /\ callbacks' = Sat(callbacks)
    /\ IF waker # None
       THEN /\ woken' = waker
            /\ wakes' = Sat(wakes)
            /\ UNCHANGED waker
       ELSE UNCHANGED << waker, woken, wakes >>
    /\ UNCHANGED << pc, watchVars, matched_iter, terminated_iter, dev,
                    dev_at_new, late, callVars >>

\* the callback also advancing the iterator it is handed
callback_drains(it) ==
    /\ cb_pending[it] > 0
    /\ registration # "none"
    /\ inner = "alloc"
    /\ cb_pending' = [cb_pending EXCEPT ![it] = @ - 1]
    /\ callbacks' = Sat(callbacks)
    /\ IF it = "matched"
       THEN /\ matched_iter' = (IF matched_iter = << >> THEN << >>
                                 ELSE Tail(matched_iter))
            /\ UNCHANGED terminated_iter
       ELSE /\ terminated_iter' = (IF terminated_iter = << >> THEN << >>
                                    ELSE Tail(terminated_iter))
            /\ UNCHANGED matched_iter
    /\ IF waker # None
       THEN /\ woken' = waker
            /\ wakes' = Sat(wakes)
            /\ waker' = None
       ELSE UNCHANGED << waker, woken, wakes >>
    /\ UNCHANGED << pc, watchVars, dev, dev_at_new, late, callVars >>

\* inner.waker.wake(): take the waker out of the slot and wake it
callback(it) ==
    /\ cb_pending[it] > 0
    /\ registration # "none"
    /\ inner = "alloc"
    /\ cb_pending' = [cb_pending EXCEPT ![it] = @ - 1]
    /\ callbacks' = Sat(callbacks)
    /\ IF waker # None
       THEN /\ woken' = waker
            /\ wakes' = Sat(wakes)
            /\ waker' = None
       ELSE UNCHANGED << waker, woken, wakes >>
    /\ UNCHANGED << pc, watchVars, matched_iter, terminated_iter, dev,
                    dev_at_new, late, callVars >>

\* -------------------------------------------------------------------- drop
\* teardown with the port also owned by a NotificationPort wrapper, whose
\* Drop destroys it a second time
drop_destroys_twice ==
    /\ pc = "idle"
    /\ pc' = "dropped"
    /\ notification_port' = "destroyed"
    /\ port_destroys' = port_destroys + 2
    /\ terminated_handle' = "released"
    /\ matched_handle' = "released"
    /\ registration' = "removed"
    /\ UNCHANGED << inner, new_result, matched_iter, terminated_iter, dev,
                    dev_at_new, late, cb_pending, callVars, wakeVars >>

\* teardown that also frees Inner (drop(Box::from_raw(self.inner)))
drop_frees_inner ==
    /\ pc = "idle"
    /\ pc' = "dropped"
    /\ notification_port' = "destroyed"
    /\ port_destroys' = port_destroys + 1
    /\ terminated_handle' = "released"
    /\ matched_handle' = "released"
    /\ registration' = "removed"
    /\ inner' = "freed"
    /\ UNCHANGED << new_result, matched_iter, terminated_iter, dev,
                    dev_at_new, late, cb_pending, callVars, wakeVars >>

\* Drop for MacHotplugWatch, then the fields; `inner` is left allocated
drop ==
    /\ pc = "idle"
    /\ pc' = "dropped"
    /\ notification_port' = "destroyed"
    /\ port_destroys' = port_destroys + 1
    /\ terminated_handle' = "released"
    /\ matched_handle' = "released"
    /\ registration' = "removed"
    /\ UNCHANGED << inner, new_result, matched_iter, terminated_iter, dev,
                    dev_at_new, late, cb_pending, callVars, wakeVars >>

\* ------------------------------------------------------------------- specs
Next ==
    \/ \E d \in Devices, ok \in BOOLEAN : os_arrival(d, ok)
    \/ \E d \in Devices, ok \in BOOLEAN : os_termination(d, ok)
    \/ new_dictionary_fail
    \/ \E r1 \in BOOLEAN, r2 \in BOOLEAN, oks \in [Devices -> BOOLEAN] :
          new_register(r1, r2, oks)
    \/ new_drain
    \/ new_add_source
    \/ \E w \in Wakers : poll_next_register(w)
    \/ poll_next_matched
    \/ poll_next_terminated
    \/ \E it \in Iters : callback(it)
    \/ drop

Spec == Init /\ [][Next]_vars

\* The task as an executor runs it: it polls at first, after a Ready, and
\* after the waker of its last poll_next call was woken; never while parked.
Runnable == last_result # Pending \/ wakes > 0

poll_next_woken(w) == Runnable /\ poll_next_register(w)

NextParked ==
    \/ \E d \in Devices, ok \in BOOLEAN : os_arrival(d, ok)
    \/ \E d \in Devices, ok \in BOOLEAN : os_termination(d, ok)
    \/ new_dictionary_fail
    \/ \E r1 \in BOOLEAN, r2 \in BOOLEAN, oks \in [Devices -> BOOLEAN] :
          new_register(r1, r2, oks)
    \/ new_drain
    \/ new_add_source
    \/ \E w \in Wakers : poll_next_woken(w)
    \/ poll_next_matched
    \/ poll_next_terminated
    \/ \E it \in Iters : callback(it)
    \/ drop

\* new() and poll_next run to completion, a runnable task is polled, a posted
\* callback is delivered; the OS owes no further notification.
Fairness ==
    /\ WF_vars(new_drain)
    /\ WF_vars(new_add_source)
    /\ WF_vars(\E w \in Wakers : poll_next_woken(w))
    /\ WF_vars(poll_next_matched)
    /\ WF_vars(poll_next_terminated)
    /\ WF_vars(\E it \in Iters : callback(it))

SpecParked == Init /\ [][NextParked]_vars /\ Fairness

\* ----------------------------------------------------------------- helpers
Range(q) == {q[i] : i \in 1..Len(q)}
IsPrefix(p, q) == Len(p) <= Len(q) /\ SubSeq(q, 1, Len(p)) = p
AllFail(q) == \A i \in 1..Len(q) : ~q[i].ok
\* index of the first entry of q that probes successfully, 0 when none does
FirstOk(q) ==
    IF \E i \in 1..Len(q) : q[i].ok
    THEN CHOOSE i \in 1..Len(q) : q[i].ok /\ \A j \in 1..(i - 1) : ~q[j].ok
    ELSE 0
Preexisting == {d \in Devices : dev_at_new[d] = "present"}
\* a poll_next call has returned and no other has started
Returned == pc = "idle" /\ polls >= 1
Parked == Returned /\ last_result = Pending
Quiet == \A i \in Iters : cb_pending[i] = 0

\* ------------------------------------------------------------------ claims

\* C1: no lost wakeup.  There is no reachable state in which a queue entry
\* is pending, the task is parked on Pending, and no wake has been or will
\* be delivered: the waker of the parked call is still unwoken and no
\* callback invocation is outstanding.
C1_NoLostWakeup ==
    ~ ( /\ Parked
        /\ matched_iter # << >> \/ terminated_iter # << >>
        /\ wakes = 0
        /\ Quiet )

\* C2: devices connected before new() never appear as events.  Once the
\* drain has ended no arrival entry of such a device is queued, no Connected
\* event is ever returned for one, and with no OS activity since new() the
\* first poll_next returns Pending.
C2_PreexistingSilent ==
    /\ \A i \in 1..Len(returned) :
          returned[i].type = "Connected" => returned[i].val \notin Preexisting
    /\ pc \notin {"start", "drain"} =>
          \A i \in 1..Len(matched_iter) : matched_iter[i].dev \notin Preexisting
    /\ (Returned /\ polls = 1 /\ dev = dev_at_new) =>
          (last_result = Pending /\ returned = << >>)

\* C2 witness: every device was connected before new(), nothing happened
\* since, and the first poll_next has returned Pending.
C2_Witness ==
    /\ Preexisting = Devices
    /\ dev = dev_at_new
    /\ Returned /\ polls = 1
    /\ last_result = Pending

\* C3: an arrival queued after the drain in new() ended is not discarded.
\* Until the first poll_next call it stays in the arrival queue; afterwards
\* it is either still queued or was taken by a poll_next call, and then
\* Connected was returned for it when its probe succeeded.  The first
\* poll_next call returns Connected for the first queued entry that probes.
C3_LateArrivalKept ==
    /\ polls = 0 => late \subseteq Range(matched_iter)
    /\ \A e \in late :
          \/ e \in Range(matched_iter)
          \/ polls >= 1 /\ (e.ok => Connected(e.dev) \in Range(returned))
    /\ (Returned /\ polls = 1 /\ FirstOk(m0) # 0) =>
          last_result = Connected(m0[FirstOk(m0)].dev)

\* C3 witness: an arrival was queued after the drain, before any poll_next,
\* and the first poll_next returned Connected for it.
C3_Witness ==
    /\ Returned /\ polls = 1
    /\ \E e \in late : e \in Range(m0) /\ last_result = Connected(e.dev)
    /\ Preexisting # {}

\* C4: arrivals take precedence.  poll_next turns to the termination queue
\* only on finding the arrival queue empty, after every arrival it took
\* failed its probe; it takes a termination entry only from there; a call
\* that returns Connected took no termination entry.
C4_Precedence ==
    /\ [](pc = "terminated" => AllFail(consumedM))
    /\ [](consumedT # << >> => AllFail(consumedM))
    /\ []((Returned /\ last_result.type = "Connected") =>
             (consumedT = << >> /\ IsPrefix(t0, terminated_iter)))
    /\ [][(pc' = "terminated" /\ pc # "terminated") =>
             (pc = "matched" /\ matched_iter = << >>)]_vars
    /\ [][Len(terminated_iter') < Len(terminated_iter) =>
             pc = "terminated"]_vars

\* C4 witness: a call that found both queues non-empty returned Connected.
C4_Witness ==
    /\ Returned
    /\ m0 # << >> /\ t0 # << >>
    /\ last_result.type = "Connected"
    /\ terminated_iter # << >>

\* C5: a failed probe does not stall the arrival queue.  If the queue a call
\* finds holds k failing entries and then one that probes, the call takes
\* exactly those k+1 entries and returns Connected for the last of them;
\* whatever a call returning Connected took is k failures and one success.
C5_FailedProbeSkipped ==
    /\ (Returned /\ FirstOk(m0) # 0) =>
          /\ consumedM = SubSeq(m0, 1, FirstOk(m0))
          /\ last_result = Connected(m0[FirstOk(m0)].dev)
          /\ IsPrefix(SubSeq(m0, FirstOk(m0) + 1, Len(m0)), matched_iter)
    /\ (Returned /\ last_result.type = "Connected") =>
          /\ FirstOk(consumedM) = Len(consumedM)
          /\ last_result.val = consumedM[Len(consumedM)].dev
          /\ IsPrefix(m0, consumedM \o matched_iter)
    /\ pc = "terminated" => (FirstOk(m0) = 0 /\ IsPrefix(m0, consumedM))

\* C5 witness: one call skipped a failed probe and returned the next arrival.
C5_Witness ==
    /\ Returned
    /\ Len(consumedM) >= 2
    /\ last_result.type = "Connected"

\* C6: every termination entry whose registry id can be extracted is
\* eventually returned as Disconnected (unless the watch is dropped first),
\* when the task polls only while runnable and callbacks come only from
\* OS enqueues.
C6_TerminationReturned ==
    \A d \in Devices :
        (Entry(d, TRUE) \in Range(terminated_iter))
            ~> (Disconnected(RegistryId(d)) \in Range(returned) \/ pc = "dropped")

\* C7: a call examines at most one termination entry, the head of the
\* queue.  An extracted id gives Disconnected(DeviceId(id)), a failed
\* extraction gives Pending, and the rest of the queue stays as it was.
C7_OneTermination ==
    /\ Len(consumedT) <= 1
    /\ IsPrefix(t0, consumedT \o terminated_iter)
    /\ (Returned /\ consumedT # << >>) =>
          /\ get_registry_id(consumedT[1]) # << >> =>
                last_result = Disconnected(RegistryId(consumedT[1].dev))
          /\ get_registry_id(consumedT[1]) = << >> => last_result = Pending
    /\ (Returned /\ last_result.type = "Disconnected") =>
          /\ consumedT # << >>
          /\ last_result.val = RegistryId(consumedT[1].dev)

\* C7 witness: a call failed to extract an id, returned Pending and left a
\* further termination entry in the queue.
C7_Witness ==
    /\ Parked
    /\ Len(consumedT) = 1 /\ ~consumedT[1].ok
    /\ Len(t0) >= 2
    /\ terminated_iter # << >>

\* C8: no duplicates: no two Ready results are the same event, so no queue
\* entry is the source of more than one.
C8_NoDuplicates ==
    \A i \in 1..Len(returned) : \A j \in 1..Len(returned) :
        i # j => returned[i] # returned[j]

\* C8 witness: a device was returned as Connected and later as Disconnected,
\* next to another event.
C8_Witness ==
    /\ Len(returned) >= 3
    /\ \E d \in Devices :
          /\ Connected(d) \in Range(returned)
          /\ Disconnected(RegistryId(d)) \in Range(returned)

\* C9: the callbacks that run after a poll_next call registered its waker
\* deliver exactly one wake between them: the first one wakes that waker
\* and empties the slot, the later ones find it empty.
C9_WokenOnce ==
    polls >= 1 =>
        /\ wakes <= 1
        /\ callbacks = 0 => (wakes = 0 /\ waker = cur_waker)
        /\ callbacks >= 1 => (wakes = 1 /\ waker = None)

\* C9 witness: the task is parked, callbacks of both registrations have run
\* since, and one wake was delivered.
C9_Witness ==
    /\ Parked
    /\ callbacks = 2
    /\ wakes = 1
    /\ Quiet
    /\ Events(1) >= 2

\* C10: the slot holds the waker of the most recent poll_next call or
\* nothing, and a callback after that call wakes that waker and no earlier
\* one.
C10_LatestWaker ==
    polls >= 1 =>
        /\ waker \in {None, cur_waker}
        /\ woken \in {None, cur_waker}
        /\ woken = None => waker = cur_waker

\* C10 witness: a call with one waker returned Pending, the next call came
\* with another waker and returned Pending, and a callback woke the second.
C10_Witness ==
    /\ Parked
    /\ replaced \in Wakers
    /\ replaced # cur_waker
    /\ woken = cur_waker

\* C11: the notification port is destroyed exactly once on every path.  It
\* is never destroyed twice; a port that was created is destroyed once when
\* new() fails at registration and once when the watch is dropped; it is
\* open only while new() is building the watch or the watch exists.
C11_PortDestroyedOnce ==
    /\ port_destroys <= 1
    /\ (port_destroys = 1) <=> (notification_port = "destroyed")
    /\ (pc = "failed" /\ inner # "none") =>
          (notification_port = "destroyed" /\ port_destroys = 1)
    /\ pc = "dropped" => (notification_port = "destroyed" /\ port_destroys = 1)
    /\ pc \in {"drain", "source", "idle", "matched", "terminated"} =>
          (notification_port = "open" /\ port_destroys = 0)
    /\ (pc = "failed" /\ inner = "none") =>
          (notification_port = "none" /\ port_destroys = 0)

\* C11 witness: a watch was built, polled and dropped, its port destroyed once.
C11_Witness ==
    /\ pc = "dropped"
    /\ new_result = "ok"
    /\ polls >= 1
    /\ port_destroys = 1

\* C12: new() fails atomically on a registration failure: the port is
\* destroyed, an error is returned, no watch exists, no event source is
\* registered and no queue handle of the failed call is retained.
C12_AtomicFailure ==
    (pc = "failed" /\ inner # "none") =>
        /\ notification_port = "destroyed"
        /\ new_result = "err"
        /\ registration = "none"
        /\ matched_handle \in {"none", "released"}
        /\ terminated_handle \in {"none", "released"}

\* C13: Inner is never freed, and whenever a callback can run (one is posted
\* and the event source was installed), also after the watch was dropped,
\* the Inner it dereferences is allocated.
C13_InnerOutlivesCallback ==
    /\ inner # "freed"
    /\ \A it \in Iters :
          (cb_pending[it] > 0 /\ registration # "none") => inner = "alloc"
    /\ pc = "dropped" => inner = "alloc"

\* C13 witness: the watch is dropped while a callback invocation is still
\* outstanding, and Inner is allocated.
C13_Witness ==
    /\ pc = "dropped"
    /\ \E it \in Iters : cb_pending[it] > 0
    /\ waker # None
    /\ inner = "alloc"

\* C14: end to end.  With a device connected before new() and no OS
\* activity the first poll_next returns Pending; a call that finds the new
\* device's arrival returns Connected for it; a call that finds no arrival
\* and that device's termination returns Disconnected with its registry id.
C14_EndToEnd ==
    /\ (Returned /\ polls = 1 /\ Preexisting # {} /\ dev = dev_at_new) =>
          last_result = Pending
    /\ \A d \in Devices \ Preexisting :
          (Returned /\ m0 = << Entry(d, TRUE) >>) =>
              (last_result = Connected(d) /\ Connected(d) \in Range(returned))
    /\ \A d \in Devices :
          (Returned /\ m0 = << >> /\ consumedM = << >>
                    /\ t0 = << Entry(d, TRUE) >>) =>
              /\ last_result = Disconnected(RegistryId(d))
              /\ Disconnected(RegistryId(d)) \in Range(returned)

\* C14 witness: one device was connected before new() and stays; another
\* arrived and was removed; the events returned are its Connected and then
\* its Disconnected, the latter by the call that just returned.
C14_Witness ==
    /\ Cardinality(Preexisting) = 1
    /\ \A p \in Preexisting : dev[p] = "present"
    /\ Returned
    /\ \E d \in Devices \ Preexisting :
          /\ returned = << Connected(d), Disconnected(RegistryId(d)) >>
          /\ m0 = << >> /\ consumedM = << >>
          /\ t0 = << Entry(d, TRUE) >>
          /\ last_result = Disconnected(RegistryId(d))

\* C15: one event per poll and nothing else consumed.  The step that returns
\* Connected takes the head of the arrival queue only and leaves the
\* termination queue alone; the step that returns Disconnected takes the
\* head of the termination queue only; what a call found queued behind the
\* entry it returned is still queued, in order, when it returns.
C15_OneEventPerPoll ==
    /\ []((Returned /\ last_result.type = "Connected") =>
             /\ IsPrefix(SubSeq(m0, Len(consumedM) + 1, Len(m0)), matched_iter)
             /\ IsPrefix(t0, terminated_iter))
    /\ []((Returned /\ last_result.type = "Disconnected") =>
             IsPrefix(SubSeq(t0, 2, Len(t0)), terminated_iter))
    /\ [][(pc = "matched" /\ pc' = "idle") =>
             /\ last_result'.type = "Connected"
             /\ returned' = Append(returned, last_result')
             /\ matched_iter' = Tail(matched_iter)
             /\ terminated_iter' = terminated_iter]_vars
    /\ [][(pc = "terminated" /\ pc' = "idle"
                              /\ last_result'.type = "Disconnected") =>
             /\ returned' = Append(returned, last_result')
             /\ terminated_iter' = Tail(terminated_iter)
             /\ matched_iter' = matched_iter]_vars

\* C15 witness: a call returned Connected, a further arrival and a
\* termination entry it found are still queued.
C15_Witness ==
    /\ Returned
    /\ last_result.type = "Connected"
    /\ Len(m0) >= 2
    /\ matched_iter # << >>
    /\ t0 # << >>
    /\ terminated_iter = t0

\* C16: a failed entry is dropped, never retried and never surfaced.  An
\* entry whose probe or id extraction failed is out of its queue and has
\* produced no event; no event ever appears for an arrival whose probe
\* fails; nothing but the OS puts an entry into a queue; poll_next returns
\* Pending or a Ready event, nothing else.
C16_FailedDropped ==
    /\ [](pc = "idle" =>
             last_result.type \in {"None", "Pending", "Connected", "Disconnected"})
    /\ [](\A e \in Range(consumedM) : ~e.ok =>
             (e \notin Range(matched_iter) /\ Connected(e.dev) \notin Range(returned)))
    /\ [](\A e \in Range(consumedT) : ~e.ok =>
             /\ e \notin Range(terminated_iter)
             /\ Disconnected(RegistryId(e.dev)) \notin Range(returned))
    /\ [](\A e \in late : ~e.ok => Connected(e.dev) \notin Range(returned))
    /\ [][\A e \in Range(matched_iter') :
             \/ e \in Range(matched_iter)
             \/ pc = "start"
             \/ dev[e.dev] = "absent" /\ dev'[e.dev] = "present"]_vars
    /\ [][\A e \in Range(terminated_iter') :
             \/ e \in Range(terminated_iter)
             \/ dev[e.dev] = "present" /\ dev'[e.dev] = "removed"]_vars

\* C16 witness: an arrival whose probe failed was taken by an earlier call;
\* a later call has returned and the entry is in no queue.
C16_Witness ==
    /\ Returned /\ polls = 2
    /\ \E e \in late :
          /\ ~e.ok
          /\ e \notin Range(matched_iter)
          /\ e \notin Range(consumedM)

\* C17: poll_next never blocks and always terminates.  Inside a call the
\* next step can always be taken, whatever the callback has or has not
\* done; the call takes at most the arrival entries that exist and one
\* termination entry; and every call that has started returns.
C17_PollTerminates ==
    /\ [](pc = "matched" => ENABLED poll_next_matched)
    /\ [](pc = "terminated" => ENABLED poll_next_terminated)
    /\ [](/\ Len(consumedT) <= 1
          /\ Len(consumedM) <= Cardinality({d \in Devices : dev[d] # "absent"}))
    /\ (pc \in {"matched", "terminated"}) ~> (pc = "idle")

\* C17 witness: a call has returned after taking two arrival entries, one
\* of them queued while it ran, and one termination entry.
C17_Witness ==
    /\ Returned
    /\ Len(consumedM) = 2
    /\ Len(m0) < Len(consumedM)
    /\ Len(consumedT) = 1

\* C18: the callback acts on the waker slot only.  A step that runs a posted
\* callback wakes and clears a registered waker, does nothing to an empty
\* slot, and leaves both queues, the watch and the poll state as they were.
C18_CallbackFrame ==
    [][(\E it \in Iters : cb_pending'[it] < cb_pending[it]) =>
          /\ UNCHANGED << matched_iter, terminated_iter, pc, watchVars,
                          callVars, dev, late >>
          /\ waker # None =>
                (waker' = None /\ woken' = waker /\ wakes' = wakes + 1)
          /\ waker = None => UNCHANGED << waker, woken, wakes >>]_vars

\* C18 witness: callbacks ran before the first poll_next, with no waker
\* registered, and the arrival they announced is still queued.
C18_Witness ==
    /\ polls = 0
    /\ pc = "idle"
    /\ callbacks >= 1
    /\ Quiet
    /\ waker = None /\ wakes = 0
    /\ matched_iter # << >>

\* C19: per-device order.  For a device that arrived after construction
\* (probe succeeding) and was removed, Disconnected is never returned before
\* Connected has been returned for it.
C19_ConnectedBeforeDisconnected ==
    \A d \in Devices : \A j \in 1..Len(returned) :
        (Entry(d, TRUE) \in late /\ returned[j] = Disconnected(RegistryId(d)))
            => \E i \in 1..(j - 1) : returned[i] = Connected(d)

TypeOK ==
    /\ pc \in {"start", "drain", "source", "idle", "matched", "terminated",
               "failed", "dropped"}
    /\ waker \in Wakers \cup {None}
    /\ port_destroys \in 0..2
    /\ Len(matched_iter) <= MaxDevices
    /\ Len(terminated_iter) <= MaxDevices

====
